---- MODULE Spec2Model ----
\* Model of the bounded-concurrency crawl pipeline of crawler.py:
\* main() (orchestrator), Crawler.fetch_and_parse (workers), Crawler.fetch,
\* Crawler.parse, Crawler.writer_csv (sink) and Crawler.Metrics.
EXTENDS Integers, Sequences, FiniteSets, TLC

\* ---------------------------------------------------------------- bounds
\* Number of worker tasks (range(100) in main, scaled down).
NumWorkers == 2
\* Number of semaphore permits (request_limit = 10 in main, scaled down).
RequestLimit == 1
\* Longest input read from stdin, in lines.
MaxLines == 3

Workers == 1..NumWorkers

\* ---------------------------------------------------------------- values
\* Text is a sequence of characters or tokens; "" is <<>>.
None == <<"None">>
EmptyStr == <<>>
Whitespace == {" ", "\n"}

\* A reference urljoin cannot resolve (urllib raises ValueError on it).
BadRef == <<"//[">>

\* Lines that may arrive on stdin.
InputLines ==
    { <<"\n">>, <<" ", "\n">>, <<"a", "\n">>, <<" ", "a", " ", "\n">>,
      <<"b", "\n">>, <<"c">> }

RECURSIVE lstrip(_)
lstrip(s) == IF s # <<>> /\ Head(s) \in Whitespace THEN lstrip(Tail(s)) ELSE s

RECURSIVE rstrip(_)
rstrip(s) ==
    IF s # <<>> /\ s[Len(s)] \in Whitespace
    THEN rstrip(SubSeq(s, 1, Len(s) - 1))
    ELSE s

strip(s) == rstrip(lstrip(s))

\* domains = set(line.strip() for line in sys.stdin if line.strip())
ReadDomains(lines) ==
    { strip(lines[i]) : i \in { j \in 1..Len(lines) : strip(lines[j]) # EmptyStr } }

\* url = f"https://{domain}"
UrlOf(d) == <<"https://">> \o d

\* urljoin(url, ref) for the references of the model's pages (absolute paths).
urljoin(url, ref) == url \o ref

\* Python truthiness of an attribute value (None and "" are falsy).
Truthy(v) == v # None /\ v # EmptyStr

\* a or b
PyOr(a, b) == IF Truthy(a) THEN a ELSE b

\* ---------------------------------------------------------------- pages
\* What the selectors of parse see in a document: whether select_one finds
\* the element, and the attributes parse reads from it.
Page(img, src, dsrc, dlazy, meta, content, link, href) ==
    [img |-> img, src |-> src, data_src |-> dsrc, data_lazy |-> dlazy,
     meta |-> meta, content |-> content, link |-> link, href |-> href]

Pages ==
    { Page(TRUE, <<"/logo.png">>, None, None, FALSE, None, FALSE, None),
      Page(TRUE, None, None, <<"/lazy.png">>, FALSE, None, TRUE, <<"/favicon.ico">>),
      Page(TRUE, None, None, None, TRUE, <<"/og.png">>, TRUE, None),
      Page(FALSE, None, None, None, TRUE, <<"/og.png">>, FALSE, None),
      Page(FALSE, None, None, None, TRUE, EmptyStr, FALSE, None),
      Page(FALSE, None, None, None, FALSE, None, FALSE, None),
      Page(TRUE, BadRef, None, None, FALSE, None, FALSE, None),
      Page(FALSE, None, None, None, TRUE, BadRef, FALSE, None),
      Page(TRUE, <<"/logo.png">>, None, None, FALSE, None, TRUE, BadRef) }

\* ---------------------------------------------------------------- metrics
\* Metrics.__init__
InitStats == [k \in {"total_processed", "logos_found"} |-> 0]

\* A counter of stats, an absent key counting as 0.
Count(st, k) == IF k \in DOMAIN st THEN st[k] ELSE 0

\* A record_success that assigns logos_found instead of adding to it.
record_success_Assign(st, has_logo) ==
    [st EXCEPT !["total_processed"] = @ + 1,
               !["logos_found"] = IF has_logo THEN 1 ELSE 0]

\* A record_success that counts a logo on every call.
record_success_AlwaysLogo(st, has_logo) ==
    [st EXCEPT !["total_processed"] = @ + 1, !["logos_found"] = @ + 1]

\* Metrics.record_success
record_success(st, has_logo) ==
    [st EXCEPT !["total_processed"] = @ + 1,
               !["logos_found"] = IF has_logo THEN @ + 1 ELSE @]

\* A record_error without the `not in` test: the counter restarts at 0.
record_error_Restart(st, error_type) ==
    [k \in DOMAIN st \cup {error_type} |-> IF k = error_type THEN 1 ELSE st[k]]

\* Metrics.record_error
record_error(st, error_type) ==
    LET st0 == IF error_type \notin DOMAIN st
               THEN [k \in DOMAIN st \cup {error_type} |->
                        IF k = error_type THEN 0 ELSE st[k]]
               ELSE st
    IN [st0 EXCEPT ![error_type] = @ + 1]

ErrorTypes ==
    {"timeout_error", "http_error", "network_error", "unknown_error", "parse_error"}

CounterNames == {"total_processed", "logos_found"} \cup ErrorTypes

\* ---------------------------------------------------------------- parse
\* Lines 215-233 of parse: the logo strategies. A raise of urljoin leaves
\* the metrics as they were, since record_success follows urljoin.
LogoStage(st, url, html) ==
    IF html.img
    THEN LET src == PyOr(PyOr(html.src, html.data_src), html.data_lazy)
         IN IF Truthy(src)
            THEN IF src = BadRef
                 THEN [raised |-> TRUE, stats |-> st, logo_url |-> EmptyStr]
                 ELSE [raised |-> FALSE, stats |-> record_success(st, TRUE),
                       logo_url |-> urljoin(url, src)]
            ELSE [raised |-> FALSE, stats |-> st, logo_url |-> EmptyStr]
    ELSE IF html.meta /\ Truthy(html.content)
         THEN IF html.content = BadRef
              THEN [raised |-> TRUE, stats |-> st, logo_url |-> EmptyStr]
              ELSE [raised |-> FALSE, stats |-> record_success(st, TRUE),
                    logo_url |-> urljoin(url, html.content)]
         ELSE [raised |-> FALSE, stats |-> st, logo_url |-> EmptyStr]

\* A parse that records the attempt whether or not a logo was found.
RecordAttempt_Always(st, logo_url) == record_success(st, FALSE)

\* A parse that never records the attempt when no logo was found.
RecordAttempt_Never(st, logo_url) == st

\* Lines 235-237 of parse: always record the processing attempt.
RecordAttempt(st, logo_url) ==
    IF logo_url = EmptyStr THEN record_success(st, FALSE) ELSE st

\* Crawler.parse: the pair returned, or the exception raised, and the metrics
\* as parse leaves them in either case.
parse(st, url, html) ==
    LET logo == LogoStage(st, url, html)
        st2 == RecordAttempt(logo.stats, logo.logo_url)
    IN IF logo.raised
       THEN [raised |-> TRUE, stats |-> logo.stats,
             logo_url |-> EmptyStr, favicon_url |-> EmptyStr]
       ELSE IF html.link /\ Truthy(html.href)
            THEN IF html.href = BadRef
                 THEN [raised |-> TRUE, stats |-> st2,
                       logo_url |-> logo.logo_url, favicon_url |-> EmptyStr]
                 ELSE [raised |-> FALSE, stats |-> st2,
                       logo_url |-> logo.logo_url,
                       favicon_url |-> urljoin(url, html.href)]
            ELSE [raised |-> FALSE, stats |-> st2,
                  logo_url |-> logo.logo_url, favicon_url |-> EmptyStr]

\* ---------------------------------------------------------------- fetch
\* Exceptions client.get or raise_for_status may raise, with the classes of
\* the except clauses of fetch each is an instance of.
Exceptions ==
    {"ConnectTimeout", "ConnectError", "HTTPStatusError", "TooManyRedirects",
     "AttributeError"}

Bases(e) ==
    CASE e = "ConnectTimeout" -> {"TimeoutException", "Exception"}
      [] e = "ConnectError" -> {"NetworkError", "Exception"}
      [] e = "HTTPStatusError" -> {"HTTPStatusError", "Exception"}
      [] OTHER -> {"Exception"}

\* The except clauses with the catch-all first.
ExceptClauses_CatchAllFirst ==
    << <<"Exception", "unknown_error">>,
       <<"TimeoutException", "timeout_error">>,
       <<"HTTPStatusError", "http_error">>,
       <<"NetworkError", "network_error">> >>

\* The except clauses of fetch, in source order: class caught, error recorded.
ExceptClauses ==
    << <<"TimeoutException", "timeout_error">>,
       <<"HTTPStatusError", "http_error">>,
       <<"NetworkError", "network_error">>,
       <<"Exception", "unknown_error">> >>

\* The error type recorded for exception e: that of the first matching clause.
ErrorTypeOf(e) ==
    LET i == CHOOSE j \in 1..Len(ExceptClauses) :
                 /\ ExceptClauses[j][1] \in Bases(e)
                 /\ \A k \in 1..(j - 1) : ExceptClauses[k][1] \notin Bases(e)
    IN ExceptClauses[i][2]

Statuses == {200, 404}

\* The documents the servers of a run answer with: one per way parse ends
\* (logo and favicon found, nothing found, urljoin raising on the logo
\* reference, urljoin raising on the favicon reference).
ServedPages ==
    { Page(TRUE, None, None, <<"/lazy.png">>, FALSE, None, TRUE, <<"/favicon.ico">>),
      Page(FALSE, None, None, None, FALSE, None, FALSE, None),
      Page(TRUE, BadRef, None, None, FALSE, None, FALSE, None),
      Page(TRUE, <<"/logo.png">>, None, None, FALSE, None, TRUE, BadRef) }

\* What `await self.client.get(url)` comes back with: an exception or a
\* response; without an open client the attribute access itself raises.
GetOutcomes(cl) ==
    IF cl = "open"
    THEN [raises : {"ConnectTimeout", "ConnectError", "TooManyRedirects"}]
         \cup [status : Statuses, text : ServedPages]
    ELSE [raises : {"AttributeError"}]

Raises(o) == "raises" \in DOMAIN o

\* response.raise_for_status()
raise_for_status(status) == ~(200 <= status /\ status <= 299)

\* fetch returns None
NoBody == <<>>

\* Lines 272-290 of fetch, from the return of client.get: the value returned
\* (<<text>> for a body, NoBody for None) and the metrics.
fetch_result(st, o) ==
    IF Raises(o)
    THEN [html |-> NoBody, stats |-> record_error(st, ErrorTypeOf(o.raises))]
    ELSE IF raise_for_status(o.status)
    THEN [html |-> NoBody, stats |-> record_error(st, ErrorTypeOf("HTTPStatusError"))]
    ELSE [html |-> <<o.text>>, stats |-> st]

\* ---------------------------------------------------------------- summary
\* Metrics.print_summary: the log lines emitted, and whether a division by
\* total raised ZeroDivisionError (the first line is logged before it).
Percent(n, total) == (n * 1000) \div total

print_summary(st) ==
    LET total == st["total_processed"]
        found == st["logos_found"]
        error_types == DOMAIN st \ {"total_processed", "logos_found"}
    IN IF total = 0
       THEN [raised |-> TRUE, lines |-> << <<"complete", total>> >>]
       ELSE [raised |-> FALSE,
             lines |-> << <<"complete", total>>,
                          <<"discovery", found, total, Percent(found, total)>>,
                          <<"rate", total>>,
                          <<"errors", [k \in error_types |->
                                          <<st[k], Percent(st[k], total)>>]>> >>]

\* ---------------------------------------------------------------- steps
\* A fetch that does not wait for a permit.
CanAcquire_Unbounded(sem) == TRUE

\* asyncio.Semaphore: a permit can be taken (async with self.semaphore).
CanAcquire(sem) == sem > 0

\* A join that does not wait for the outstanding items.
JoinReturns_Early(unfinished) == TRUE

\* A join that returns while one item is still outstanding.
JoinReturns_OneLeft(unfinished) == unfinished <= 1

\* asyncio.Queue.join returns when every item put has been task_done.
JoinReturns(unfinished) == unfinished = 0

\* A queue that hands out its newest item first.
QueueGet_Lifo(q) == [item |-> q[Len(q)], rest |-> SubSeq(q, 1, Len(q) - 1)]

\* asyncio.Queue.get: the oldest item, and the queue without it.
QueueGet(q) == [item |-> Head(q), rest |-> Tail(q)]

\* A worker that goes back to the queue after a failed fetch without the finally.
AfterFetch_NoAck(h) == IF h # NoBody THEN "parse" ELSE "get"

\* fetch_and_parse, line 331: `if html is not None`, else on to the finally.
AfterFetch(h) == IF h # NoBody THEN "parse" ELSE "task_done"

\* A worker that acknowledges without putting its tuple.
AfterParse_SkipPut(raised) == "task_done"

\* A worker that puts a tuple although parse raised.
AfterParse_PutAlways(raised) == "put"

\* A worker without the except clause: an exception of parse ends the task.
AfterParse_Escapes(raised) == IF raised THEN "failed" ELSE "put"

\* fetch_and_parse, lines 333-335: after parse returns the tuple is put;
\* after it raises the except clause runs and then the finally.
AfterParse(raised) == IF raised THEN "task_done" ELSE "put"

\* fetch_and_parse, line 334: the tuple handed to csv_queue.put.
ResultOf(d, r) == <<d, r.logo_url, r.favicon_url>>

\* A fetch that gives the permit back only when it returns a body.
ReleaseAfter_OnlyOnBody(sem, h) == IF h # NoBody THEN sem + 1 ELSE sem

\* fetch, lines 271-290: `async with self.semaphore` releases the permit when
\* the block is left, by the return of the body or after an except clause.
ReleaseAfter(sem, h) == sem + 1

\* An except clause that swallows the exception without recording it.
OnParseRaise_Silent(st) == st

\* fetch_and_parse, lines 335-338: except Exception: record parse_error.
OnParseRaise(st) == record_error(st, "parse_error")

\* ---------------------------------------------------------------- state
VARIABLES
    stdin,          \* lines not yet read from sys.stdin
    input,          \* observation: the lines given on stdin, remembered
                    \* until the tasks are created
    domains,        \* main: the set of domains read
    mpc,            \* main: position
    client,         \* Crawler.client: "None", "open" or "closed"
    url_queue,      \* Crawler.url_queue: items waiting
    url_unfinished, \* Crawler.url_queue: items put and not yet task_done
    csv_queue,      \* Crawler.csv_queue: items waiting
    csv_unfinished, \* Crawler.csv_queue: items put and not yet task_done
    semaphore,      \* Crawler.semaphore: permits available
    stats,          \* Crawler.metrics.stats
    wpc,            \* fetch_and_parse: position of each worker task
    item,           \* fetch_and_parse: domain each worker holds
    html,           \* fetch_and_parse: what fetch returned to each worker
    result,         \* fetch_and_parse: the tuple each worker is to put
    spc,            \* writer_csv: position
    sresult,        \* writer_csv: the item taken from csv_queue
    rows,           \* rows written to stdout
    log,            \* lines logged by print_summary
    cancelling,     \* main has called cancel() on the tasks
    puts,           \* observation: every item put on csv_queue, in order
    gets,           \* observation: per domain, times dequeued by a worker
    acks,           \* observation: per domain, times task_done was called
    fetched,        \* observation: per domain, outcome of fetch
    parsed          \* observation: per domain, outcome of parse

vars ==
    <<stdin, input, domains, mpc, client, url_queue, url_unfinished, csv_queue,
      csv_unfinished, semaphore, stats, wpc, item, html, result, spc,
      sresult, rows, log, cancelling, puts, gets, acks, fetched, parsed>>

mainVars == <<stdin, input, domains, mpc, client, log, cancelling>>
urlVars == <<url_queue, url_unfinished>>
csvVars == <<csv_queue, csv_unfinished, puts>>
workerVars == <<wpc, item, html, result>>
sinkVars == <<spc, sresult, rows>>
obsVars == <<gets, acks, fetched, parsed>>

Header == << <<"domain">>, <<"logo_url">>, <<"favicon_url">> >>

\* Sequences over S of length at most n.
SeqUpTo(S, n) == UNION { [1..k -> S] : k \in 0..n }

\* A list instead of a set: one domain is visited a second time.
Orders_WithRepeat(S) ==
    { q \in [1..(Cardinality(S) + 1) -> S] : \A d \in S : \E i \in DOMAIN q : q[i] = d }

\* The orders in which `for domain in domains` may visit a set.
Orders(S) ==
    { q \in [1..Cardinality(S) -> S] : \A d \in S : \E i \in DOMAIN q : q[i] = d }

\* The state before main runs, for an input made of the given lines.
InitWith(lines) ==
    /\ stdin \in SeqUpTo(lines, MaxLines)
    /\ input = stdin
    /\ domains = {}
    /\ mpc = "start"
    /\ client = "None"
    /\ url_queue = <<>>
    /\ url_unfinished = 0
    /\ csv_queue = <<>>
    /\ csv_unfinished = 0
    /\ semaphore = RequestLimit
    /\ stats = InitStats
    /\ wpc = [w \in Workers |-> "new"]
    /\ item = [w \in Workers |-> None]
    /\ html = [w \in Workers |-> NoBody]
    /\ result = [w \in Workers |-> None]
    /\ spc = "new"
    /\ sresult = None
    /\ rows = <<>>
    /\ log = <<>>
    /\ cancelling = FALSE
    /\ puts = <<>>
    /\ gets = <<>>
    /\ acks = <<>>
    /\ fetched = <<>>
    /\ parsed = <<>>

Init == InitWith(InputLines)

\* ---------------------------------------------------------------- main
\* main, lines 394-397: read stdin; return when there is no domain.
ReadStdin ==
    /\ mpc = "start"
    /\ domains' = ReadDomains(stdin)
    /\ stdin' = <<>>
    /\ mpc' = IF domains' = {} THEN "returned" ELSE "enter"
    /\ gets' = [d \in domains' |-> 0]
    /\ acks' = [d \in domains' |-> 0]
    /\ fetched' = [d \in domains' |-> "none"]
    /\ parsed' = [d \in domains' |-> "none"]
    /\ UNCHANGED <<input, client, log, cancelling, urlVars, csvVars, semaphore,
                   stats, workerVars, sinkVars>>

\* main, line 400: Crawler(request_limit) and __aenter__.
Enter ==
    /\ mpc = "enter"
    /\ client' = "open"
    /\ mpc' = "enqueue"
    /\ UNCHANGED <<stdin, input, domains, log, cancelling, urlVars, csvVars, semaphore,
                   stats, workerVars, sinkVars, obsVars>>

\* main, lines 402-403: put_nowait of every domain, in set order.
Enqueue ==
    /\ mpc = "enqueue"
    /\ \E q \in Orders(domains) :
          /\ url_queue' = url_queue \o q
          /\ url_unfinished' = url_unfinished + Len(q)
    /\ mpc' = "spawn"
    /\ UNCHANGED <<stdin, input, domains, client, log, cancelling, csvVars, semaphore,
                   stats, workerVars, sinkVars, obsVars>>

\* main, lines 405-410: create the worker tasks and the writer task.
Spawn ==
    /\ mpc = "spawn"
    /\ wpc' = [w \in Workers |-> "get"]
    /\ spc' = "start"
    /\ mpc' = "join_url"
    /\ input' = <<>>
    /\ UNCHANGED <<stdin, domains, client, log, cancelling, urlVars, csvVars,
                   semaphore, stats, item, html, result, sresult, rows, obsVars>>

\* main, line 413: await url_queue.join()
JoinUrl ==
    /\ mpc = "join_url"
    /\ JoinReturns(url_unfinished)
    /\ mpc' = "put_none"
    /\ UNCHANGED <<stdin, input, domains, client, log, cancelling, urlVars, csvVars,
                   semaphore, stats, workerVars, sinkVars, obsVars>>

\* main, line 416: await csv_queue.put(None)
PutNone ==
    /\ mpc = "put_none"
    /\ csv_queue' = Append(csv_queue, None)
    /\ csv_unfinished' = csv_unfinished + 1
    /\ puts' = Append(puts, None)
    /\ mpc' = "join_csv"
    /\ UNCHANGED <<stdin, input, domains, client, log, cancelling, urlVars, semaphore,
                   stats, workerVars, sinkVars, obsVars>>

\* main, line 417: await csv_queue.join()
JoinCsv ==
    /\ mpc = "join_csv"
    /\ JoinReturns(csv_unfinished)
    /\ mpc' = "cancel"
    /\ UNCHANGED <<stdin, input, domains, client, log, cancelling, urlVars, csvVars,
                   semaphore, stats, workerVars, sinkVars, obsVars>>

\* main, lines 419-421: cancel() on every worker task and on the writer task.
Cancel ==
    /\ mpc = "cancel"
    /\ cancelling' = TRUE
    /\ mpc' = "aexit"
    /\ UNCHANGED <<stdin, input, domains, client, log, urlVars, csvVars, semaphore,
                   stats, workerVars, sinkVars, obsVars>>

\* Crawler.__aexit__: close the client, then print the summary; an exception
\* of print_summary leaves main through the async with.
AExit ==
    /\ mpc = "aexit"
    /\ client' = "closed"
    /\ LET r == print_summary(stats)
       IN /\ log' = r.lines
          /\ mpc' = IF r.raised THEN "raised" ELSE "done"
    /\ UNCHANGED <<stdin, input, domains, cancelling, urlVars, csvVars, semaphore,
                   stats, workerVars, sinkVars, obsVars>>

\* ---------------------------------------------------------------- worker
\* A worker is suspended at an await of fetch_and_parse or fetch.
Suspended(w) == wpc[w] \in {"get", "sleep", "acquire", "net"}

\* fetch_and_parse, lines 326-327: domain = await self.url_queue.get()
Get(w) ==
    /\ wpc[w] = "get"
    /\ ~cancelling
    /\ url_queue # <<>>
    /\ item' = [item EXCEPT ![w] = QueueGet(url_queue).item]
    /\ url_queue' = QueueGet(url_queue).rest
    /\ gets' = [gets EXCEPT ![QueueGet(url_queue).item] = @ + 1]
    /\ wpc' = [wpc EXCEPT ![w] = "sleep"]
    /\ UNCHANGED <<mainVars, url_unfinished, csvVars, semaphore, stats, html,
                   result, sinkVars, acks, fetched, parsed>>

\* A fetch that goes from the delay straight to client.get, taking no permit.
Sleep_ThenNet(w) ==
    /\ wpc[w] = "sleep"
    /\ ~cancelling
    /\ wpc' = [wpc EXCEPT ![w] = "net"]
    /\ UNCHANGED <<mainVars, urlVars, csvVars, semaphore, stats, item, html,
                   result, sinkVars, obsVars>>

\* fetch, line 270: await asyncio.sleep(0.5)
Sleep(w) ==
    /\ wpc[w] = "sleep"
    /\ ~cancelling
    /\ wpc' = [wpc EXCEPT ![w] = "acquire"]
    /\ UNCHANGED <<mainVars, urlVars, csvVars, semaphore, stats, item, html,
                   result, sinkVars, obsVars>>

\* fetch, lines 271-273: async with self.semaphore, then client.get is issued.
Acquire(w) ==
    /\ wpc[w] = "acquire"
    /\ ~cancelling
    /\ CanAcquire(semaphore)
    /\ semaphore' = semaphore - 1
    /\ wpc' = [wpc EXCEPT ![w] = "net"]
    /\ UNCHANGED <<mainVars, urlVars, csvVars, stats, item, html, result,
                   sinkVars, obsVars>>

\* fetch, lines 273-290: client.get comes back; the body is returned or the
\* error is recorded, and the semaphore is released on the way out.
NetReturn(w) ==
    /\ wpc[w] = "net"
    /\ ~cancelling
    /\ \E o \in GetOutcomes(client) :
          LET r == fetch_result(stats, o)
          IN /\ stats' = r.stats
             /\ html' = [html EXCEPT ![w] = r.html]
             /\ fetched' = [fetched EXCEPT ![item[w]] =
                               IF r.html # NoBody THEN "body" ELSE "failed"]
             /\ wpc' = [wpc EXCEPT ![w] = AfterFetch(r.html)]
             /\ semaphore' = ReleaseAfter(semaphore, r.html)
    /\ UNCHANGED <<mainVars, urlVars, csvVars, item, result, sinkVars, gets,
                   acks, parsed>>

\* fetch_and_parse, lines 331-333 and 335-338: parse the body; an exception
\* of parse is caught and recorded as parse_error.
Parse(w) ==
    /\ wpc[w] = "parse"
    /\ LET r == parse(stats, UrlOf(item[w]), html[w][1])
       IN /\ stats' = IF r.raised THEN OnParseRaise(r.stats) ELSE r.stats
          /\ result' = [result EXCEPT ![w] = ResultOf(item[w], r)]
          /\ parsed' = [parsed EXCEPT ![item[w]] =
                           IF r.raised THEN "raised" ELSE "ok"]
          /\ wpc' = [wpc EXCEPT ![w] = AfterParse(r.raised)]
    /\ html' = [html EXCEPT ![w] = NoBody]
    /\ UNCHANGED <<mainVars, urlVars, csvVars, semaphore, item, sinkVars, gets,
                   acks, fetched>>

\* fetch_and_parse, line 334: await self.csv_queue.put((domain, logo_url, favicon_url))
Put(w) ==
    /\ wpc[w] = "put"
    /\ csv_queue' = Append(csv_queue, result[w])
    /\ csv_unfinished' = csv_unfinished + 1
    /\ puts' = Append(puts, result[w])
    /\ result' = [result EXCEPT ![w] = None]
    /\ wpc' = [wpc EXCEPT ![w] = "task_done"]
    /\ UNCHANGED <<mainVars, urlVars, semaphore, stats, item, html, sinkVars,
                   obsVars>>

\* fetch_and_parse, lines 339-340: finally: self.url_queue.task_done().
\* task_done raises ValueError when nothing is outstanding, ending the task.
TaskDone(w) ==
    /\ wpc[w] = "task_done"
    /\ IF url_unfinished <= 0
       THEN /\ wpc' = [wpc EXCEPT ![w] = "failed"]
            /\ UNCHANGED <<url_unfinished, acks>>
       ELSE /\ url_unfinished' = url_unfinished - 1
            /\ acks' = [acks EXCEPT ![item[w]] = @ + 1]
            /\ wpc' = [wpc EXCEPT ![w] = "get"]
    /\ item' = [item EXCEPT ![w] = None]
    /\ result' = [result EXCEPT ![w] = None]
    /\ UNCHANGED <<mainVars, url_queue, csvVars, semaphore, stats, html,
                   sinkVars, gets, fetched, parsed>>

\* CancelledError delivered to a worker at the await it is suspended on:
\* at url_queue.get() the task ends; inside the try the semaphore is released
\* if held and the finally clause calls task_done before the task ends.
Cancelled(w) ==
    /\ cancelling
    /\ Suspended(w)
    /\ semaphore' = IF wpc[w] = "net" THEN semaphore + 1 ELSE semaphore
    /\ url_unfinished' =
          IF wpc[w] # "get" /\ url_unfinished > 0
          THEN url_unfinished - 1 ELSE url_unfinished
    /\ acks' = IF wpc[w] # "get" /\ url_unfinished > 0
               THEN [acks EXCEPT ![item[w]] = @ + 1] ELSE acks
    /\ wpc' = [wpc EXCEPT ![w] = "cancelled"]
    /\ item' = [item EXCEPT ![w] = None]
    /\ UNCHANGED <<mainVars, url_queue, csvVars, stats, html, result, sinkVars,
                   gets, fetched, parsed>>

\* ---------------------------------------------------------------- sink
\* writer_csv, line 343: the header row.
WriterStart ==
    /\ spc = "start"
    /\ rows' = Append(rows, Header)
    /\ spc' = IF cancelling THEN "cancelled" ELSE "get"
    /\ UNCHANGED <<mainVars, urlVars, csvVars, semaphore, stats, workerVars,
                   sresult, obsVars>>

\* writer_csv, line 346: result = await self.csv_queue.get()
WriterGet ==
    /\ spc = "get"
    /\ IF cancelling
       THEN /\ spc' = "cancelled"
            /\ UNCHANGED <<csv_queue, sresult>>
       ELSE /\ csv_queue # <<>>
            /\ sresult' = QueueGet(csv_queue).item
            /\ csv_queue' = QueueGet(csv_queue).rest
            /\ spc' = "handle"
    /\ UNCHANGED <<mainVars, urlVars, csv_unfinished, puts, semaphore, stats,
                   workerVars, rows, obsVars>>

\* writer_csv, lines 348-353: the sentinel ends the loop; a result is written.
WriterHandle ==
    /\ spc = "handle"
    /\ IF sresult = None
       THEN /\ spc' = "done"
            /\ rows' = rows
       ELSE /\ spc' = "get"
            /\ rows' = Append(rows, sresult)
    /\ csv_unfinished' = csv_unfinished - 1
    /\ sresult' = None
    /\ UNCHANGED <<mainVars, urlVars, csv_queue, puts, semaphore, stats,
                   workerVars, obsVars>>

\* ---------------------------------------------------------------- system
Next ==
    \/ ReadStdin
    \/ Enter
    \/ Enqueue
    \/ Spawn
    \/ JoinUrl
    \/ PutNone
    \/ JoinCsv
    \/ Cancel
    \/ AExit
    \/ \E w \in Workers : Get(w)
    \/ \E w \in Workers : Sleep(w)
    \/ \E w \in Workers : Acquire(w)
    \/ \E w \in Workers : NetReturn(w)
    \/ \E w \in Workers : Parse(w)
    \/ \E w \in Workers : Put(w)
    \/ \E w \in Workers : TaskDone(w)
    \/ \E w \in Workers : Cancelled(w)
    \/ WriterStart
    \/ WriterGet
    \/ WriterHandle

Spec == Init /\ [][Next]_vars

\* The event loop keeps running some task that can run, and every
\* client.get comes back: a step that is possible is eventually taken. No
\* task need be favoured: the work is finite, so no task can be overtaken
\* forever.
Fairness == WF_vars(Next)

\* The runs checked for progress read at most two distinct domains.
FairInit == InitWith(InputLines \ { <<"c">> })

FairSpec == FairInit /\ [][Next]_vars /\ Fairness

\* ---------------------------------------------------------------- claims
\* Workers holding domain d between url_queue.get and task_done.
Holders(d) == { w \in Workers : item[w] = d }

\* Positions in puts of the results put for domain d.
ResultsFor(d) == { i \in 1..Len(puts) : puts[i] # None /\ puts[i][1] = d }

\* Workers inside the network call of fetch.
InFlight == { w \in Workers : wpc[w] = "net" }

\* The results put on csv_queue, in order, without the sentinel.
ResultsPut == SelectSeq(puts, LAMBDA x : x # None)

\* The rows written after the header.
RowsWritten == SubSeq(rows, 2, Len(rows))

IsPrefix(a, b) == Len(a) <= Len(b) /\ \A i \in 1..Len(a) : a[i] = b[i]

\* Domains whose fetch returned a body and whose parse returned.
Succeeded == { d \in domains : fetched[d] = "body" /\ parsed[d] = "ok" }

\* C1: once the domains are enqueued and main waits in url_queue.join(), the
\* outstanding count of url_queue eventually reaches zero and join returns,
\* for more workers than permits and more domains than permits, under fair
\* scheduling and with every client.get coming back.
C1_QueueDrains ==
    (mpc = "join_url") ~> (mpc = "put_none" /\ url_unfinished = 0)

C1_Witness ==
    /\ mpc = "put_none"
    /\ url_unfinished = 0
    /\ Cardinality(domains) > RequestLimit
    /\ NumWorkers > RequestLimit
    /\ \A d \in domains : acks[d] = 1

\* C2: every dequeued domain is acknowledged exactly once on every outcome
\* path: acknowledgements never exceed dequeues, no domain is acknowledged
\* twice, a dequeued domain is either still held by its worker or has been
\* acknowledged, and a domain whose parse returned is acknowledged only after
\* its result was put on csv_queue.
C2_AckExactlyOnce ==
    \A d \in domains :
        /\ acks[d] <= gets[d]
        /\ acks[d] <= 1
        /\ gets[d] = acks[d] + Cardinality(Holders(d))
        /\ (acks[d] >= 1 /\ parsed[d] = "ok") => ResultsFor(d) # {}

C2_Witness ==
    \E d1, d2, d3 \in domains :
        /\ parsed[d1] = "ok" /\ acks[d1] = 1
        /\ fetched[d2] = "failed" /\ acks[d2] = 1
        /\ parsed[d3] = "raised" /\ acks[d3] = 1

\* C3: the number of workers inside client.get never exceeds the permit count.
C3_InFlightBounded == Cardinality(InFlight) <= RequestLimit

C3_Witness ==
    /\ Cardinality(InFlight) = RequestLimit
    /\ \E w \in Workers : wpc[w] = "acquire"
    /\ url_queue # <<>>

\* C4: csv_queue has received at most one result per domain, and none for a
\* domain whose fetch returned None or whose parse raised.
C4_AtMostOneResult ==
    \A d \in domains :
        /\ Cardinality(ResultsFor(d)) <= 1
        /\ (fetched[d] = "failed" \/ parsed[d] = "raised") => ResultsFor(d) = {}

C4_Witness ==
    \E d, e, f \in domains :
        /\ fetched[d] = "failed" /\ acks[d] = 1
        /\ parsed[e] = "raised" /\ acks[e] = 1
        /\ Cardinality(ResultsFor(f)) = 1

\* C5: the sentinel is the last item ever put on csv_queue, no worker is
\* still working on a domain once it is put, and when the sink has stopped on
\* it the rows after the header are exactly one row per domain whose fetch
\* returned a body and whose parse returned.
C5_NoResultLost ==
    /\ \A i \in 1..Len(puts) : puts[i] = None => i = Len(puts)
    /\ (\E i \in 1..Len(puts) : puts[i] = None) =>
          /\ \A w \in Workers : wpc[w] \in {"get", "cancelled"}
          /\ \A d \in Succeeded : ResultsFor(d) # {}
    /\ spc = "done" =>
          /\ rows # <<>> /\ rows[1] = Header
          /\ Len(RowsWritten) = Cardinality(Succeeded)
          /\ { RowsWritten[i][1] : i \in 1..Len(RowsWritten) } = Succeeded

C5_Witness ==
    /\ spc = "done"
    /\ Len(RowsWritten) >= 1
    /\ \E d \in domains : fetched[d] = "failed"
    /\ \E d \in domains : parsed[d] = "raised"

\* C6: whatever the outcomes of the items, once main has left the crawler
\* (__aexit__ has closed the client) the sink has stopped on the sentinel,
\* the whole summary has been logged (completion line, discovery rate,
\* processing rate, error breakdown) and main has ended without an exception.
C6_SummaryAlwaysEmitted ==
    client = "closed" => (mpc = "done" /\ spc = "done" /\ Len(log) = 4)

\* The error counters fetch may increment.
FetchErrorTypes ==
    {"timeout_error", "http_error", "network_error", "unknown_error"}

\* The error kind the claim assigns to a failed client.get.
ExpectedError(o) ==
    IF Raises(o)
    THEN CASE o.raises = "ConnectTimeout" -> "timeout_error"
           [] o.raises = "ConnectError" -> "network_error"
           [] OTHER -> "unknown_error"
    ELSE "http_error"

\* Counter k of st2 is counter k of st1 plus one for k = e and plus zero else.
OnlyIncremented(st1, st2, e) ==
    \A k \in CounterNames \cup DOMAIN st1 \cup DOMAIN st2 :
        Count(st2, k) = Count(st1, k) + (IF k = e THEN 1 ELSE 0)

\* C7: every call of fetch either returns the response body unchanged and
\* leaves every counter as it was, or returns None and adds exactly 1 to the
\* one error counter of its failure (timeout -> timeout_error, non-2xx ->
\* http_error, network failure -> network_error, anything else ->
\* unknown_error) and leaves every other counter as it was; and every step in
\* which a worker's client.get comes back is one of these two.
C7_FetchOutcome ==
    /\ [](\A o \in GetOutcomes(client) :
            LET r == fetch_result(stats, o)
            IN IF ~Raises(o) /\ o.status \in 200..299
               THEN r.html = <<o.text>> /\ r.stats = stats
               ELSE r.html = NoBody /\ OnlyIncremented(stats, r.stats, ExpectedError(o)))
    /\ [][\A w \in Workers :
            (wpc[w] = "net" /\ wpc'[w] \notin {"net", "cancelled"}) =>
                \/ html'[w] # NoBody /\ stats' = stats
                \/ /\ html'[w] = NoBody
                   /\ \E e \in FetchErrorTypes : OnlyIncremented(stats, stats', e)]_vars

C7_Witness ==
    /\ Count(stats, "timeout_error") = 1
    /\ Count(stats, "http_error") = 1
    /\ \E w \in Workers : wpc[w] = "parse" /\ html[w] # NoBody

\* C8: the step in which parse raises for a worker's item adds exactly 1 to
\* parse_error, puts nothing on csv_queue, leaves every other worker and the
\* observations of every other domain as they were and takes the worker to
\* its finally clause; the worker's next step acknowledges that item, puts
\* nothing and is back at url_queue.get().
C8_ParseRaiseIsolated ==
    [][\A w \in Workers :
          /\ (wpc[w] = "parse" /\ wpc'[w] # "parse" /\ parsed'[item[w]] = "raised") =>
                /\ Count(stats', "parse_error") = Count(stats, "parse_error") + 1
                /\ \A k \in FetchErrorTypes : Count(stats', k) = Count(stats, k)
                /\ puts' = puts /\ csv_queue' = csv_queue
                /\ wpc'[w] = "task_done"
                /\ \A v \in Workers \ {w} :
                      /\ wpc'[v] = wpc[v] /\ item'[v] = item[v]
                      /\ html'[v] = html[v] /\ result'[v] = result[v]
                /\ \A d \in domains \ {item[w]} :
                      /\ fetched'[d] = fetched[d] /\ parsed'[d] = parsed[d]
                      /\ gets'[d] = gets[d] /\ acks'[d] = acks[d]
          /\ (wpc[w] = "task_done" /\ wpc'[w] # "task_done"
                /\ parsed[item[w]] = "raised") =>
                /\ acks'[item[w]] = acks[item[w]] + 1
                /\ url_unfinished' = url_unfinished - 1
                /\ puts' = puts /\ csv_queue' = csv_queue
                /\ wpc'[w] = "get"]_vars

C8_Witness ==
    \E d, e \in domains :
        /\ parsed[d] = "raised" /\ acks[d] = 1
        /\ Count(stats, "parse_error") = 1
        /\ parsed[e] = "ok" /\ ResultsFor(e) # {}
        /\ \E w \in Workers : wpc[w] = "sleep"

\* C9: no step of main, of a worker or of the writer decreases a counter of
\* stats, an absent counter counting as 0.
C9_CountersMonotonic ==
    [][\A k \in CounterNames \cup DOMAIN stats \cup DOMAIN stats' :
          Count(stats', k) >= Count(stats, k)]_vars

C9_Witness ==
    /\ stats["total_processed"] >= 2
    /\ stats["logos_found"] = 1
    /\ Count(stats, "parse_error") >= 1
    /\ mpc = "done"

\* The writer has left its loop.
SinkStopped(p) == p \in {"done", "cancelled"}

\* C10: the rows written after the header are always a prefix of the results
\* put on csv_queue, in the order they were put; the writer leaves its loop
\* only in the step that handles the sentinel it dequeued, and that step
\* acknowledges the sentinel and writes no row.
C10_RowsInArrivalOrder ==
    /\ [](/\ rows # <<>> => rows[1] = Header
          /\ IsPrefix(RowsWritten, ResultsPut))
    /\ [][(~SinkStopped(spc) /\ SinkStopped(spc')) =>
             /\ spc = "handle" /\ sresult = None
             /\ spc' = "done"
             /\ rows' = rows
             /\ csv_unfinished' = csv_unfinished - 1]_vars

C10_Witness ==
    /\ spc = "done"
    /\ Len(RowsWritten) = 3
    /\ csv_unfinished = 0

\* Main has created the tasks and has not yet cancelled them.
TasksRunning ==
    mpc \in {"join_url", "put_none", "join_csv", "cancel"} /\ ~cancelling

\* C11: main calls cancel() only when url_queue and csv_queue have nothing
\* outstanding; from then on no worker holds a domain (a worker is cancelled
\* only at url_queue.get(), outside the try), and the writer has already
\* stopped on the sentinel with csv_queue empty, so it is never cancelled.
C11_CancelOnlyWhenDrained ==
    /\ [](cancelling =>
            /\ url_unfinished = 0 /\ csv_unfinished = 0
            /\ url_queue = <<>> /\ csv_queue = <<>>
            /\ \A w \in Workers : wpc[w] \in {"get", "cancelled"} /\ item[w] = None
            /\ spc = "done")
    /\ [][(mpc = "cancel" /\ mpc' # "cancel") =>
             (url_unfinished = 0 /\ csv_unfinished = 0 /\ spc = "done")]_vars
    /\ [][\A w \in Workers :
             (wpc[w] # "cancelled" /\ wpc'[w] = "cancelled") =>
                (wpc[w] = "get" /\ acks' = acks /\ url_unfinished' = url_unfinished)]_vars

C11_Witness ==
    /\ cancelling
    /\ \E w \in Workers : wpc[w] = "cancelled"
    /\ \E w \in Workers : wpc[w] = "get"
    /\ Len(RowsWritten) >= 1
    /\ \E d \in domains : fetched[d] = "failed"

\* C12: from the creation of the tasks until main cancels them every worker
\* is still in its loop (at url_queue.get(), in the pacing delay, waiting for
\* a permit, in client.get, parsing, putting or acknowledging), whatever the
\* outcomes of its earlier items.
C12_WorkersNeverExit ==
    TasksRunning =>
        \A w \in Workers :
            wpc[w] \in {"get", "sleep", "acquire", "net", "parse", "put", "task_done"}

C12_Witness ==
    /\ TasksRunning
    /\ mpc = "join_csv"
    /\ \E d \in domains : fetched[d] = "failed" /\ acks[d] = 1
    /\ \E d \in domains : parsed[d] = "raised" /\ acks[d] = 1
    /\ \A w \in Workers : wpc[w] = "get"

\* The distinct non-blank domains of the lines given on stdin.
DistinctDomains ==
    { d \in { strip(input[i]) : i \in 1..Len(input) } : d # EmptyStr }

\* How many times d occurs in sequence q.
Occurrences(q, d) == Cardinality({ i \in 1..Len(q) : q[i] = d })

\* Rows written for domain d.
RowsFor(d) == { i \in 2..Len(rows) : rows[i][1] = d }

\* Main has read the input and has not yet created the tasks.
InputRemembered == mpc \in {"enter", "enqueue", "spawn", "returned"}

\* C13: whatever lines are given (repeats, padding, blank lines), the domains
\* main keeps are the distinct non-blank stripped lines, and when the tasks
\* are about to be created each of them is on url_queue exactly once and
\* nothing else is; afterwards each domain waits on url_queue or has been
\* dequeued, once in all, and has at most one row.
C13_EachDomainOnce ==
    /\ InputRemembered => domains = DistinctDomains
    /\ mpc = "spawn" =>
          /\ \A d \in DistinctDomains : Occurrences(url_queue, d) = 1
          /\ Len(url_queue) = Cardinality(DistinctDomains)
          /\ url_unfinished = Cardinality(DistinctDomains)
          /\ \A w \in Workers : wpc[w] = "new"
    /\ mpc \notin {"start", "enter", "enqueue", "returned"} =>
          /\ \A i \in 1..Len(url_queue) : url_queue[i] \in domains
          /\ \A d \in domains :
                /\ Occurrences(url_queue, d) + gets[d] = 1
                /\ Cardinality(RowsFor(d)) <= 1

C13_Witness ==
    /\ mpc = "spawn"
    /\ \E i, j \in 1..Len(input) :
          i # j /\ strip(input[i]) = strip(input[j]) /\ input[i] # input[j]
    /\ Len(url_queue) = 1


\* record_error applied n times in a row.
RECURSIVE RecordErrorTimes(_, _, _)
RecordErrorTimes(st, k, n) ==
    IF n = 0 THEN st ELSE RecordErrorTimes(record_error(st, k), k, n - 1)

\* C14: from any metrics a run reaches, record_error(k) adds exactly 1 to the
\* counter of k, creating it when absent, and leaves total_processed,
\* logos_found and every other error counter as they were; n calls for a kind
\* not yet counted leave its counter at n.
C14_RecordErrorFrame ==
    \A k \in ErrorTypes :
        /\ OnlyIncremented(stats, record_error(stats, k), k)
        /\ k \in DOMAIN record_error(stats, k)
        /\ DOMAIN record_error(stats, k) = DOMAIN stats \cup {k}
        /\ \A n \in 0..MaxLines :
              Count(RecordErrorTimes(stats, k, n), k) = Count(stats, k) + n

C14_Witness ==
    /\ "network_error" \in DOMAIN stats /\ stats["network_error"] = 2
    /\ "timeout_error" \notin DOMAIN stats
    /\ stats["total_processed"] = 1

\* C15: from any metrics a run reaches, starting at 0 and 0, record_success
\* adds exactly 1 to total_processed, adds 1 to logos_found when has_logo is
\* true and nothing otherwise, and leaves the error counters and the set of
\* counters as they were.
C15_RecordSuccessFrame ==
    \A has_logo \in BOOLEAN :
        LET st == record_success(stats, has_logo)
        IN /\ st["total_processed"] = stats["total_processed"] + 1
           /\ st["logos_found"] = stats["logos_found"] + (IF has_logo THEN 1 ELSE 0)
           /\ DOMAIN st = DOMAIN stats
           /\ \A k \in DOMAIN stats \ {"total_processed", "logos_found"} : st[k] = stats[k]

C15_Witness ==
    /\ stats["total_processed"] = 2
    /\ stats["logos_found"] = 1
    /\ Count(stats, "http_error") = 1

\* Workers inside fetch's pacing delay.
Pacing == { w \in Workers : wpc[w] = "sleep" }

C17_PermitsReleased ==
    /\ semaphore \in 0..RequestLimit
    /\ RequestLimit - semaphore = Cardinality(InFlight)
    /\ \A w \in Workers :
          wpc[w] \in {"parse", "put", "task_done"} =>
             RequestLimit - semaphore = Cardinality(InFlight \ {w})
    /\ url_unfinished = 0 => semaphore = RequestLimit

C17_Witness ==
    /\ semaphore = RequestLimit
    /\ \E w, v \in Workers :
          /\ wpc[w] = "task_done" /\ fetched[item[w]] = "failed"
          /\ wpc[v] = "parse"
    /\ Count(stats, "timeout_error") + Count(stats, "http_error") = 1

\* The branch of parse's logo search a document takes.
BranchOf(pg) ==
    IF pg.img
    THEN IF Truthy(PyOr(PyOr(pg.src, pg.data_src), pg.data_lazy))
         THEN "img_src" ELSE "img_no_src"
    ELSE IF pg.meta
         THEN IF Truthy(pg.content) THEN "meta_content" ELSE "meta_no_content"
         ELSE "nothing"

Branches == {"img_src", "img_no_src", "meta_content", "meta_no_content", "nothing"}

\* C18: from any metrics a run reaches, a call of parse that returns normally
\* adds exactly 1 to total_processed on each branch of the logo search (image
\* with a source, image without one, meta with content, meta without, nothing
\* found), adds 1 to logos_found exactly when the logo_url it returns is
\* non-empty, and leaves the error counters alone.
C18_ParseCountsOnce ==
    /\ \A b \in Branches :
          \E pg \in Pages :
             BranchOf(pg) = b /\ ~parse(stats, UrlOf(<<"a">>), pg).raised
    /\ \A d \in domains \cup {<<"a">>} : \A pg \in Pages :
          LET r == parse(stats, UrlOf(d), pg)
          IN ~r.raised =>
                /\ r.stats["total_processed"] = stats["total_processed"] + 1
                /\ r.stats["logos_found"] =
                      stats["logos_found"] + (IF r.logo_url # EmptyStr THEN 1 ELSE 0)
                /\ (r.logo_url # EmptyStr) <=>
                      BranchOf(pg) \in {"img_src", "meta_content"}
                /\ \A k \in ErrorTypes : Count(r.stats, k) = Count(stats, k)

C18_Witness ==
    /\ stats["total_processed"] = 1
    /\ stats["logos_found"] = 1
    /\ \E w \in Workers :
          /\ wpc[w] = "put"
          /\ parsed[item[w]] = "ok"
          /\ result[w][2] # EmptyStr

RECURSIVE SumOver(_, _)
SumOver(st, K) ==
    IF K = {} THEN 0
    ELSE LET k == CHOOSE x \in K : TRUE
         IN Count(st, k) + SumOver(st, K \ {k})

\* Both joins of main have returned.
PipelineCompleted == mpc \in {"cancel", "aexit", "done", "raised"}

\* C19: each domain is counted under exactly one outcome. When the pipeline
\* has completed, total_processed plus the error counters add up to the
\* number of distinct domains enqueued, and total_processed is the number of
\* rows written after the header.
C19_OneOutcomePerItem ==
    PipelineCompleted =>
       /\ stats["total_processed"] + SumOver(stats, ErrorTypes) = Cardinality(domains)
       /\ stats["total_processed"] = Len(RowsWritten)
\* C20: in every reachable state, however the workers interleave, logos_found
\* is at most total_processed and the results put on csv_queue are at most
\* total_processed.
C20_CountersOrdered ==
    /\ stats["logos_found"] <= stats["total_processed"]
    /\ Len(ResultsPut) <= stats["total_processed"]

C20_Witness ==
    /\ stats["total_processed"] = 2
    /\ stats["logos_found"] = 1
    /\ Len(ResultsPut) = 2
    /\ \E w \in Workers : wpc[w] = "parse"

====
